---- MODULE Spec2Model ----
(***************************************************************************)
(* Model of src/main.rs: an OCI artifact puller.  One run fetches the      *)
(* manifest, saves it, then downloads every referenced blob in order.      *)
(*                                                                         *)
(* Strings that the program inspects are sequences of tokens, every token  *)
(* standing for the characters it spells ("/" and "." are single           *)
(* characters, ".json", "_pretty", "manifest" ... are the substrings the   *)
(* program and the claims distinguish).  No concatenation of tokens spells *)
(* another one, so a string ends in ".json" exactly when its last token is *)
(* ".json".  Blob bodies are sequences of bytes over ByteAlphabet.         *)
(***************************************************************************)
EXTENDS Integers, Sequences, FiniteSets, TLC

VARIABLES
    srvManifest,  \* registry side: the body served for the manifest URL
    srvBlobs,     \* registry side: digest -> bytes served for the blob URL
    pc,           \* position of main / download_blob
    manifest,     \* main: `manifest` (parsed serde_json Value)
    i,            \* main: loop index of `layers.iter().enumerate()`
    cur,          \* download_blob: its arguments (digest, output_filename)
    bytes,        \* download_blob: `bytes`
    mstatus,      \* main: `status` of the failing manifest response
    mtext,        \* main: `text` of the failing manifest response
    files,        \* the output directory: file name -> content
    log,          \* history: HTTP requests issued and file writes attempted
    result,       \* "running", "ok" (exit 0) or "err" (exit non-zero)
    err           \* the error main returned

vars == <<srvManifest, srvBlobs, pc, manifest, i, cur, bytes, mstatus, mtext,
          files, log, result, err>>

----------------------------------------------------------------------------
(* Bounds *)

MaxLayers == 3
MaxIndex == 2
MaxTitleLen == 3
MaxNameLen == 3
MaxBytes == 3

SeqsUpTo(S, n) == UNION {[1..k -> S] : k \in 0..n}

Last(s) == s[Len(s)]

Reverse(s) == [k \in 1..Len(s) |-> s[Len(s) + 1 - k]]

----------------------------------------------------------------------------
(* JSON values of the manifest, as far as main looks at them *)

Str(s) == [t |-> "str", s |-> s]
AbsentStr == [t |-> "absent", s |-> ""]
NonStr == [t |-> "other", s |-> ""]

Title(s) == [t |-> "str", s |-> s]
AbsentTitle == [t |-> "absent", s |-> <<>>]
NonStrTitle == [t |-> "other", s |-> <<>>]

Layers(s) == [t |-> "array", v |-> s]
AbsentLayers == [t |-> "absent", v |-> <<>>]
NonArrayLayers == [t |-> "other", v |-> <<>>]

AbsentConfig == [t |-> "absent", digest |-> AbsentStr]
Config(d) == [t |-> "object", digest |-> d]

NullManifest == [layers |-> AbsentLayers, config |-> AbsentConfig]

WasmType == "application/wasm"

----------------------------------------------------------------------------
(* File names *)

ManifestName == <<"manifest", ".json">>
ConfigName == <<"config", ".json">>
PrettySuffix == <<"_pretty", ".json">>

IdxTok(n) == <<"0", "1", "2", "3", "4", "5", "6", "7", "8", "9">>[n + 1]

\* The segments of a path between its "/" separators.
RECURSIVE Split(_)
Split(s) ==
    IF s = <<>> THEN << <<>> >>
    ELSE LET rest == Split(Tail(s)) IN
         IF Head(s) = "/" THEN << <<>> >> \o rest
         ELSE << <<Head(s)>> \o Head(rest) >> \o Tail(rest)

\* std::path::Components keeps neither empty segments nor "." segments
\* (a leading "." or "/" is a CurDir or RootDir component, never Normal).
IsComponent(c) == c # <<>> /\ c # <<".">>

Components(s) == SelectSeq(Split(s), IsComponent)

\* Path::file_name: the last component when it is Normal, else None.
FileName(s) ==
    LET c == Components(s) IN
    IF c = <<>> \/ Last(c) = <<".", ".">>
    THEN [some |-> FALSE, v |-> <<>>]
    ELSE [some |-> TRUE, v |-> Last(c)]

IsWasm(layer) == layer.mediaType.t = "str" /\ layer.mediaType.s = WasmType

\* LayerFilename, but the synthesized names count from one.
LayerFilename_OneBased(layer, idx) ==
    IF layer.title.t = "str"
    THEN LET f == FileName(layer.title.s) IN
         IF f.some THEN f.v ELSE layer.title.s
    ELSE IF IsWasm(layer) THEN <<"module_", IdxTok(idx + 1), ".wasm">>
         ELSE <<"blob_", IdxTok(idx + 1)>>

LayerFilename(layer, idx) ==
    IF layer.title.t = "str"
    THEN LET f == FileName(layer.title.s) IN
         IF f.some THEN f.v ELSE layer.title.s
    ELSE IF IsWasm(layer) THEN <<"module_", IdxTok(idx), ".wasm">>
         ELSE <<"blob_", IdxTok(idx)>>

EndsWithJson(name) == name # <<>> /\ Last(name) = ".json"

\* str::strip_suffix(".json"): removes the suffix once.
TrimEndMatches_Once(name) ==
    IF EndsWithJson(name) THEN SubSeq(name, 1, Len(name) - 1) ELSE name

\* str::trim_end_matches(".json"): removes the suffix repeatedly.
RECURSIVE TrimEndMatches(_)
TrimEndMatches(name) ==
    IF EndsWithJson(name) THEN TrimEndMatches(SubSeq(name, 1, Len(name) - 1))
    ELSE name

PrettyName(name) == TrimEndMatches(name) \o PrettySuffix

\* File::create / fs::write of <output_dir>/<name> can succeed only when the
\* name denotes a plain entry of the directory.
CanCreate(name) ==
    /\ name # <<>>
    /\ \A k \in 1..Len(name) : name[k] # "/"
    /\ name # <<".">>
    /\ name # <<".", ".">>

----------------------------------------------------------------------------
(* Blob bytes and serde_json on them *)

ByteAlphabet == {"{", "}", "1", " ", "xFF"}

\* String::from_utf8: the byte 0xFF occurs in no UTF-8 encoding.
IsUtf8(b) == \A k \in 1..Len(b) : b[k] # "xFF"

RECURSIVE SkipWs(_)
SkipWs(s) == IF s # <<>> /\ Head(s) = " " THEN SkipWs(Tail(s)) ELSE s

StripWs(s) == Reverse(SkipWs(Reverse(SkipWs(s))))

\* serde_json::from_str on the alphabet: a number of digits 1, or an empty
\* object, with whitespace around it (and inside the braces).
ParseJson(s) ==
    LET c == StripWs(s) IN
    IF c # <<>> /\ \A k \in 1..Len(c) : c[k] = "1"
    THEN [ok |-> TRUE, t |-> "num", n |-> Len(c)]
    ELSE IF /\ Len(c) >= 2
            /\ c[1] = "{"
            /\ c[Len(c)] = "}"
            /\ \A k \in 2..(Len(c) - 1) : c[k] = " "
         THEN [ok |-> TRUE, t |-> "obj", n |-> 0]
         ELSE [ok |-> FALSE, t |-> "err", n |-> 0]

\* serde_json::to_string_pretty of such a value.
ToStringPretty(v) ==
    IF v.t = "num" THEN [k \in 1..v.n |-> "1"] ELSE <<"{", "}">>

WantsPretty(name, b) == EndsWithJson(name) \/ (Len(b) > 0 /\ b[1] = "{")

----------------------------------------------------------------------------
(* HTTP and the file system *)

SendErr == 0
Statuses == {200, 404, 500}
HttpOutcomes == {SendErr} \cup Statuses

\* A status check that lets every response through.
IsSuccess_Any(status) == status >= 0

IsSuccess(status) == status >= 200 /\ status < 300

FsOutcomes == {"ok", "create_err", "write_err"}

WriteOutcomes(name) == IF CanCreate(name) THEN FsOutcomes ELSE {"create_err"}

BytesContent(b) == [kind |-> "bytes", b |-> b, doc |-> NullManifest]
ManifestContent(m) == [kind |-> "manifest_pretty", b |-> <<>>, doc |-> m]

\* create + write_all: a failed create leaves the directory alone, a failed
\* write leaves the truncated file.
WriteFile(fs, name, content, out) ==
    IF out = "create_err" THEN fs
    ELSE IF out = "write_err" THEN (name :> BytesContent(<<>>)) @@ fs
    ELSE (name :> content) @@ fs

Ev(ev, kind, idx, name, digest, status, res) ==
    [ev |-> ev, kind |-> kind, idx |-> idx, name |-> name, digest |-> digest,
     status |-> status, res |-> res]

NoErr == [kind |-> "none", status |-> 0, text |-> ""]
NoCur == [digest |-> "", filename |-> <<>>, idx |-> -1]
ConfigIdx == -1

----------------------------------------------------------------------------
(* main *)

Fail(kind, status, text) ==
    /\ pc' = "done"
    /\ result' = "err"
    /\ err' = [kind |-> kind, status |-> status, text |-> text]

Succeed ==
    /\ pc' = "done"
    /\ result' = "ok"
    /\ err' = NoErr

\* GET /v2/<namespace>/<name>/manifests/<version> and the status check.
FetchManifest ==
    /\ pc = "fetch_manifest"
    /\ \E out \in HttpOutcomes, textOk \in BOOLEAN :
        /\ log' = Append(log, Ev("get", "manifest", -1, <<>>, "", out,
                                 IF out = SendErr THEN "send_err" ELSE "ok"))
        /\ IF out = SendErr
           THEN /\ Fail("Failed to send request", 0, "")
                /\ UNCHANGED <<mstatus, mtext>>
           ELSE IF ~IsSuccess(out)
           THEN /\ mstatus' = out
                /\ mtext' = IF textOk THEN "body"
                            ELSE "Could not get response text"
                /\ pc' = "catalog"
                /\ UNCHANGED <<result, err>>
           ELSE /\ pc' = "parse_manifest"
                /\ UNCHANGED <<mstatus, mtext, result, err>>
    /\ UNCHANGED <<srvManifest, srvBlobs, manifest, i, cur, bytes, files>>

\* The diagnostic GET /v2/_catalog, then the return of the HTTP error.
ListCatalog ==
    /\ pc = "catalog"
    /\ \E out \in HttpOutcomes, jsonOk \in BOOLEAN :
        /\ log' = Append(log, Ev("get", "catalog", -1, <<>>, "", out,
                                 IF out = SendErr THEN "send_err" ELSE "ok"))
        /\ IF out # SendErr /\ IsSuccess(out) /\ ~jsonOk
           THEN Fail("error decoding response body", 0, "")
           ELSE Fail("HTTP error", mstatus, mtext)
    /\ UNCHANGED <<srvManifest, srvBlobs, manifest, i, cur, bytes, mstatus,
                   mtext, files>>

\* response.json(): reading the body or parsing it may fail.
ParseManifest ==
    /\ pc = "parse_manifest"
    /\ \E bodyOk \in BOOLEAN :
        IF bodyOk /\ srvManifest.json
        THEN /\ manifest' = srvManifest.doc
             /\ pc' = "save_manifest"
             /\ UNCHANGED <<result, err>>
        ELSE /\ Fail("Failed to parse manifest JSON", 0, "")
             /\ UNCHANGED manifest
    /\ UNCHANGED <<srvManifest, srvBlobs, i, cur, bytes, mstatus, mtext,
                   files, log>>

\* fs::write(<output_dir>/manifest.json, to_string_pretty(manifest))
SaveManifest ==
    /\ pc = "save_manifest"
    /\ \E out \in WriteOutcomes(ManifestName) :
        /\ files' = WriteFile(files, ManifestName, ManifestContent(manifest), out)
        /\ log' = Append(log, Ev("write", "manifest", -1, ManifestName, "", 0, out))
        /\ IF out = "ok"
           THEN /\ pc' = "resolve"
                /\ UNCHANGED <<result, err>>
           ELSE Fail("Failed to save manifest", 0, "")
    /\ UNCHANGED <<srvManifest, srvBlobs, manifest, i, cur, bytes, mstatus, mtext>>

\* A layers key of any type counts as the layers array.
HasLayers_AnyType(m) == m.layers.t # "absent"

HasLayers(m) == m.layers.t = "array"

\* NextLayer, but a manifest with an empty layers array is an error.
NextLayer_EmptyIsError ==
    /\ pc = "resolve"
    /\ HasLayers(manifest)
    /\ IF i < Len(manifest.layers.v)
       THEN LET layer == manifest.layers.v[i + 1] IN
            IF layer.digest.t = "str"
            THEN /\ cur' = [digest |-> layer.digest.s,
                            filename |-> LayerFilename(layer, i),
                            idx |-> i]
                 /\ pc' = "blob_get"
                 /\ UNCHANGED <<i, result, err>>
            ELSE /\ i' = i + 1
                 /\ UNCHANGED <<pc, cur, result, err>>
       ELSE /\ IF Len(manifest.layers.v) = 0
               THEN Fail("no layers", 0, "")
               ELSE Succeed
            /\ UNCHANGED <<i, cur>>
    /\ UNCHANGED <<srvManifest, srvBlobs, manifest, bytes, mstatus, mtext,
                   files, log>>

\* One iteration of the loop over the layers, up to the call of
\* download_blob; past the last layer main returns Ok.
NextLayer ==
    /\ pc = "resolve"
    /\ HasLayers(manifest)
    /\ IF i < Len(manifest.layers.v)
       THEN LET layer == manifest.layers.v[i + 1] IN
            IF layer.digest.t = "str"
            THEN /\ cur' = [digest |-> layer.digest.s,
                            filename |-> LayerFilename(layer, i),
                            idx |-> i]
                 /\ pc' = "blob_get"
                 /\ UNCHANGED <<i, result, err>>
            ELSE /\ i' = i + 1
                 /\ UNCHANGED <<pc, cur, result, err>>
       ELSE /\ Succeed
            /\ UNCHANGED <<i, cur>>
    /\ UNCHANGED <<srvManifest, srvBlobs, manifest, bytes, mstatus, mtext,
                   files, log>>

\* No layers array: the config blob, if it has a digest.
ConfigFallback ==
    /\ pc = "resolve"
    /\ ~HasLayers(manifest)
    /\ IF manifest.config.t = "object" /\ manifest.config.digest.t = "str"
       THEN /\ cur' = [digest |-> manifest.config.digest.s,
                       filename |-> ConfigName,
                       idx |-> ConfigIdx]
            /\ pc' = "blob_get"
            /\ UNCHANGED <<result, err>>
       ELSE /\ Succeed
            /\ UNCHANGED cur
    /\ UNCHANGED <<srvManifest, srvBlobs, manifest, i, bytes, mstatus, mtext,
                   files, log>>

----------------------------------------------------------------------------
(* download_blob *)

\* download_blob returned Ok: `?` lets main go on.
Return ==
    IF cur.idx = ConfigIdx
    THEN /\ Succeed
         /\ UNCHANGED i
    ELSE /\ pc' = "resolve"
         /\ i' = i + 1
         /\ UNCHANGED <<result, err>>

\* BlobGet, but a non-success status skips the blob and main goes on.
BlobGet_SkipOnError ==
    /\ pc = "blob_get"
    /\ \E out \in HttpOutcomes, bodyOk \in BOOLEAN :
        /\ log' = Append(log, Ev("get", "blob", cur.idx, <<>>, cur.digest, out,
                                 IF out = SendErr THEN "send_err"
                                 ELSE IF IsSuccess(out) /\ ~bodyOk THEN "body_err"
                                 ELSE "ok"))
        /\ IF out = SendErr
           THEN /\ Fail("Failed to download blob", 0, cur.digest)
                /\ UNCHANGED <<bytes, i>>
           ELSE IF ~IsSuccess(out)
           THEN /\ Return
                /\ UNCHANGED bytes
           ELSE IF ~bodyOk
           THEN /\ Fail("error decoding response body", 0, "")
                /\ UNCHANGED <<bytes, i>>
           ELSE /\ bytes' = srvBlobs[cur.digest]
                /\ pc' = "blob_write"
                /\ UNCHANGED <<result, err, i>>
    /\ UNCHANGED <<srvManifest, srvBlobs, manifest, cur, mstatus, mtext, files>>

\* GET /v2/<namespace>/<name>/blobs/<digest>, the status check, resp.bytes()
BlobGet ==
    /\ pc = "blob_get"
    /\ \E out \in HttpOutcomes, bodyOk \in BOOLEAN :
        /\ log' = Append(log, Ev("get", "blob", cur.idx, <<>>, cur.digest, out,
                                 IF out = SendErr THEN "send_err"
                                 ELSE IF IsSuccess(out) /\ ~bodyOk THEN "body_err"
                                 ELSE "ok"))
        /\ IF out = SendErr
           THEN /\ Fail("Failed to download blob", 0, cur.digest)
                /\ UNCHANGED bytes
           ELSE IF ~IsSuccess(out)
           THEN /\ Fail("Failed to download blob", out, cur.digest)
                /\ UNCHANGED bytes
           ELSE IF ~bodyOk
           THEN /\ Fail("error decoding response body", 0, "")
                /\ UNCHANGED bytes
           ELSE /\ bytes' = srvBlobs[cur.digest]
                /\ pc' = "blob_write"
                /\ UNCHANGED <<result, err>>
    /\ UNCHANGED <<srvManifest, srvBlobs, manifest, i, cur, mstatus, mtext, files>>

\* File::create(<output_dir>/<output_filename>) and write_all(bytes)
BlobWrite ==
    /\ pc = "blob_write"
    /\ \E out \in WriteOutcomes(cur.filename) :
        /\ files' = WriteFile(files, cur.filename, BytesContent(bytes), out)
        /\ log' = Append(log, Ev("write", "raw", cur.idx, cur.filename,
                                 cur.digest, 0, out))
        /\ IF out = "ok"
           THEN /\ pc' = "blob_pretty"
                /\ UNCHANGED <<result, err>>
           ELSE Fail("io error", 0, "")
    /\ UNCHANGED <<srvManifest, srvBlobs, manifest, i, cur, bytes, mstatus, mtext>>

\* The pretty copy, and the return of download_blob.
BlobPretty ==
    /\ pc = "blob_pretty"
    /\ IF /\ WantsPretty(cur.filename, bytes)
          /\ IsUtf8(bytes)
          /\ ParseJson(bytes).ok
       THEN \E out \in WriteOutcomes(PrettyName(cur.filename)) :
            /\ files' = WriteFile(files, PrettyName(cur.filename),
                                  BytesContent(ToStringPretty(ParseJson(bytes))), out)
            /\ log' = Append(log, Ev("write", "pretty", cur.idx,
                                     PrettyName(cur.filename), cur.digest, 0, out))
            /\ IF out = "ok" THEN Return
               ELSE /\ Fail("io error", 0, "")
                    /\ UNCHANGED i
       ELSE /\ Return
            /\ UNCHANGED <<files, log>>
    /\ UNCHANGED <<srvManifest, srvBlobs, manifest, cur, bytes, mstatus, mtext>>

Next ==
    \/ FetchManifest
    \/ ListCatalog
    \/ ParseManifest
    \/ SaveManifest
    \/ NextLayer
    \/ ConfigFallback
    \/ BlobGet
    \/ BlobWrite
    \/ BlobPretty

----------------------------------------------------------------------------
(* What the registry serves *)

ObjDigest == "sha256:obj"
BinDigest == "sha256:bin"
NumDigest == "sha256:num"
CfgDigest == "sha256:cfg"
AnyDigest == "sha256:any"

Digests == {ObjDigest, BinDigest, NumDigest, CfgDigest, AnyDigest}

FixedBlobs ==
    (ObjDigest :> <<"{", " ", "}">>) @@ (BinDigest :> <<"xFF", "1">>)
    @@ (NumDigest :> <<"1">>) @@ (CfgDigest :> <<"{", "}">>)
    @@ (AnyDigest :> <<>>)

Layer(d, m, t) == [digest |-> d, mediaType |-> m, title |-> t]

Configs == {AbsentConfig, Config(AbsentStr), Config(Str(CfgDigest))}

ManifestsOf(entries, n) ==
    {[layers |-> Layers(s), config |-> c] : s \in SeqsUpTo(entries, n), c \in Configs}
    \cup {[layers |-> l, config |-> c] :
            l \in {AbsentLayers, NonArrayLayers}, c \in Configs}

\* The layer entries of the runs of Spec: untitled ones, titles that collide
\* with each other, with manifest.json and with a pretty copy's name.
RunLayers ==
    { Layer(AbsentStr, Str(WasmType), Title(<<"a", ".json">>)),
      Layer(Str(ObjDigest), Str(WasmType), AbsentTitle),
      Layer(Str(BinDigest), AbsentStr, AbsentTitle),
      Layer(Str(ObjDigest), Str("text/plain"), Title(<<"a", ".json">>)),
      Layer(Str(BinDigest), Str(WasmType), Title(ManifestName)),
      Layer(Str(NumDigest), NonStr, Title(<<"a", "_pretty", ".json">>)) }

InitWith(served, blobs) ==
    /\ srvManifest = served
    /\ srvBlobs = blobs
    /\ pc = "fetch_manifest"
    /\ manifest = NullManifest
    /\ i = 0
    /\ cur = NoCur
    /\ bytes = <<>>
    /\ mstatus = 0
    /\ mtext = ""
    /\ files = <<>>
    /\ log = <<>>
    /\ result = "running"
    /\ err = NoErr

NotJson == [json |-> FALSE, doc |-> NullManifest]
Json(m) == [json |-> TRUE, doc |-> m]

Init ==
    \E served \in {NotJson} \cup {Json(m) : m \in ManifestsOf(RunLayers, MaxLayers)} :
        InitWith(served, FixedBlobs)

Spec == Init /\ [][Next]_vars

----------------------------------------------------------------------------
(* Reading the history *)

IsPrefix(s, t) == Len(s) <= Len(t) /\ s = SubSeq(t, 1, Len(s))

IsBlobGet(e) == e.ev = "get" /\ e.kind = "blob"
IsRawWrite(e) == e.ev = "write" /\ e.kind = "raw"
IsPrettyWrite(e) == e.ev = "write" /\ e.kind = "pretty"
IsManifestWrite(e) == e.ev = "write" /\ e.kind = "manifest"

\* The response carried an HTTP status outside 200..299.
BadStatus(e) == e.ev = "get" /\ e.res # "send_err" /\ ~(e.status \in 200..299)
GoodStatus(e) == e.ev = "get" /\ e.res # "send_err" /\ e.status \in 200..299

ManifestRefused == Len(log) >= 1 /\ log[1].kind = "manifest" /\ BadStatus(log[1])

ManifestSaved == \E m \in 1..Len(log) : IsManifestWrite(log[m]) /\ log[m].res = "ok"

HasDigest(layer) == layer.digest.t = "str"

\* The digests a manifest refers main to, in the order of their downloads.
ExpectedDigests(m) ==
    IF m.layers.t = "array"
    THEN LET sel == SelectSeq(m.layers.v, HasDigest) IN
         [k \in 1..Len(sel) |-> sel[k].digest.s]
    ELSE IF m.config.t = "object" /\ m.config.digest.t = "str"
         THEN <<m.config.digest.s>>
         ELSE <<>>

BlobGets == SelectSeq(log, IsBlobGet)
GotDigests == [k \in 1..Len(BlobGets) |-> BlobGets[k].digest]

\* Every request got a success status and its body, every write succeeded,
\* and main has returned.
CleanRun ==
    /\ pc = "done"
    /\ ManifestSaved
    /\ \A m \in 1..Len(log) :
        /\ log[m].res = "ok"
        /\ log[m].ev = "get" => GoodStatus(log[m])

----------------------------------------------------------------------------
(* Claims checked on the runs of Spec *)

\* C1: with a layers array, once the blob GET of entry k is answered with a
\* non-success status, the run is over and has failed; nothing is requested
\* or written afterwards, so no entry after k is fetched; no file was written
\* for entry k; every earlier entry that has a digest was written and its
\* file is in the output directory.
C1_BlobFailureAborts ==
    manifest.layers.t = "array" =>
    \A j \in 1..Len(log) :
        (IsBlobGet(log[j]) /\ BadStatus(log[j])) =>
            /\ j = Len(log)
            /\ pc = "done"
            /\ result = "err"
            /\ \A m \in 1..Len(log) :
                /\ IsBlobGet(log[m]) => log[m].idx <= log[j].idx
                /\ log[m].ev = "write" /\ log[m].kind # "manifest"
                      => log[m].idx < log[j].idx
            /\ \A n \in 0..(log[j].idx - 1) :
                HasDigest(manifest.layers.v[n + 1]) =>
                    \E m \in 1..(j - 1) :
                        /\ IsRawWrite(log[m])
                        /\ log[m].idx = n
                        /\ log[m].res = "ok"
                        /\ log[m].name \in DOMAIN files

\* A blob GET fails with a status after an earlier blob was saved, and a
\* later entry with a digest is left.
C1_Witness ==
    /\ pc = "done"
    /\ manifest.layers.t = "array"
    /\ \E j \in 1..Len(log) :
        /\ IsBlobGet(log[j])
        /\ BadStatus(log[j])
        /\ log[j].idx >= 1
        /\ \E m \in 1..(j - 1) : IsRawWrite(log[m]) /\ log[m].res = "ok"
        /\ \E n \in (log[j].idx + 2)..Len(manifest.layers.v) :
            HasDigest(manifest.layers.v[n])

\* C2: a manifest GET answered with a non-success status is followed by at
\* most one request, the catalog GET; no blob is requested, no file exists
\* (neither manifest.json nor a blob file), no write is attempted, and the
\* run ends in failure.
C2_ManifestRefused ==
    ManifestRefused =>
        /\ Len(log) <= 2
        /\ Len(log) = 2 => (log[2].ev = "get" /\ log[2].kind = "catalog")
        /\ DOMAIN files = {}
        /\ pc \in {"catalog", "done"}
        /\ pc = "done" => result = "err"
        /\ result # "ok"

C2_Witness ==
    /\ ManifestRefused
    /\ log[1].status = 404
    /\ pc = "done"
    /\ Len(log) = 2

\* C3: after a non-success manifest status the run ends with the error that
\* carries that status and the body text, whatever the catalog request did.
C3_CatalogIsBestEffort ==
    (ManifestRefused /\ pc = "done") =>
        /\ err.kind = "HTTP error"
        /\ err.status = log[1].status
        /\ err.text = mtext

\* C4: after a successful run manifest.json holds the pretty-printed
\* manifest, and the downloaded blobs have pairwise distinct files that hold
\* their bytes.
C4_OneFilePerBlob ==
    (pc = "done" /\ result = "ok") =>
        /\ ManifestName \in DOMAIN files
        /\ files[ManifestName] = ManifestContent(manifest)
        /\ \A m \in 1..Len(log) :
            IsRawWrite(log[m]) =>
                /\ log[m].name \in DOMAIN files
                /\ files[log[m].name] = BytesContent(srvBlobs[log[m].digest])
                /\ \A n \in 1..Len(log) :
                    (IsRawWrite(log[n]) /\ n # m) => log[n].name # log[m].name

EmptyManifest == [layers |-> Layers(<<>>), config |-> AbsentConfig]

\* C7: when the manifest has an empty layers array and no config, no blob is
\* ever requested, no file other than manifest.json is written or exists,
\* and once manifest.json is written the run ends with success (and it ends
\* with success in no other way).
C7_EmptyLayers ==
    (srvManifest.json /\ srvManifest.doc = EmptyManifest) =>
        /\ BlobGets = <<>>
        /\ DOMAIN files \subseteq {ManifestName}
        /\ \A m \in 1..Len(log) : log[m].ev = "write" => IsManifestWrite(log[m])
        /\ pc \notin {"blob_get", "blob_write", "blob_pretty"}
        /\ (ManifestSaved /\ pc = "done") => result = "ok"
        /\ ManifestSaved => pc \in {"resolve", "done"}
        /\ result = "ok" => (ManifestSaved /\ files[ManifestName] = ManifestContent(EmptyManifest))

C7_Witness ==
    /\ srvManifest.json
    /\ srvManifest.doc = EmptyManifest
    /\ pc = "done"
    /\ result = "ok"
    /\ DOMAIN files = {ManifestName}

\* C9: once the raw bytes of a blob are in its file, download_blob does not
\* fail: no run ends in failure right after a successful raw write or after
\* an attempt to write the pretty copy.
C9_PrettyNeverFatal ==
    (pc = "done" /\ result = "err" /\ log # <<>>) =>
        ~(\/ IsRawWrite(Last(log)) /\ Last(log).res = "ok"
          \/ IsPrettyWrite(Last(log)))

\* C10: the blob GETs are always a prefix of the digests the manifest names
\* (entries of the layers array with a string digest, in order, the config
\* never; without a layers array the config digest alone), each at its own
\* position of the array; a run in which nothing failed issued all of them
\* and ended with success; the config blob is saved as config.json; and
\* manifest.json is written before the first blob GET.
C10_BlobGetSequence ==
    /\ BlobGets # <<>> => srvManifest.json
    /\ srvManifest.json =>
        /\ IsPrefix(GotDigests, ExpectedDigests(srvManifest.doc))
        /\ CleanRun => (GotDigests = ExpectedDigests(srvManifest.doc) /\ result = "ok")
        /\ \A m \in 1..Len(log) :
            /\ IsBlobGet(log[m]) =>
                /\ \E n \in 1..(m - 1) : IsManifestWrite(log[n]) /\ log[n].res = "ok"
                /\ IF srvManifest.doc.layers.t = "array"
                   THEN /\ log[m].idx \in 0..(Len(srvManifest.doc.layers.v) - 1)
                        /\ srvManifest.doc.layers.v[log[m].idx + 1].digest = Str(log[m].digest)
                        /\ \A n \in 1..(m - 1) : IsBlobGet(log[n]) => log[n].idx < log[m].idx
                   ELSE log[m].idx = ConfigIdx
            /\ (IsRawWrite(log[m]) /\ srvManifest.doc.layers.t # "array")
                  => log[m].name = ConfigName

\* A clean run that skipped an entry without digest, downloaded two layers
\* and left a config with a digest alone.
C10_Witness ==
    /\ CleanRun
    /\ srvManifest.doc.layers.t = "array"
    /\ Len(GotDigests) = 2
    /\ Len(srvManifest.doc.layers.v) = 3
    /\ srvManifest.doc.config = Config(Str(CfgDigest))

\* A clean run without a layers array that fetched the config blob.
C10_WitnessConfig ==
    /\ CleanRun
    /\ srvManifest.doc.layers.t = "other"
    /\ GotDigests = <<CfgDigest>>
    /\ ConfigName \in DOMAIN files

----------------------------------------------------------------------------
(* Runs that exercise the file name of one layer entry *)

MediaTypes == {AbsentStr, NonStr, Str(WasmType), Str("application/wasm2"),
               Str("text/plain")}

PathTokens == {"a", "/", "."}

NameTitles ==
    {AbsentTitle, NonStrTitle} \cup {Title(t) : t \in SeqsUpTo(PathTokens, MaxTitleLen)}

NameLayers == {Layer(Str(BinDigest), m, t) : m \in MediaTypes, t \in NameTitles}

\* k entries without a string digest, which the loop skips.
Skipped(k) == [n \in 1..k |-> Layer(NonStr, Str(WasmType), AbsentTitle)]

NameManifests ==
    {[layers |-> Layers(Skipped(k) \o <<e>>), config |-> AbsentConfig] :
        k \in 0..MaxIndex, e \in NameLayers}

BaseManifests == ManifestsOf({}, 0)

InitName ==
    \E m \in NameManifests \cup BaseManifests : InitWith(Json(m), FixedBlobs)

SpecName == InitName /\ [][Next]_vars

InDownload == pc \in {"blob_get", "blob_write", "blob_pretty"}

CurLayer == manifest.layers.v[cur.idx + 1]

\* C5: the file name derived from a title annotation contains no path
\* separator.
C5_TitleHasNoSeparator ==
    (InDownload /\ cur.idx # ConfigIdx /\ CurLayer.title.t = "str") =>
        \A k \in 1..Len(cur.filename) : cur.filename[k] # "/"

\* C6: download_blob is called for an entry without a (string) title under
\* the name module_<i>.wasm when the mediaType is the string
\* application/wasm and blob_<i> otherwise, i being the entry's position in
\* the array; the raw file is written under that name.
C6_SynthesizedName ==
    /\ (InDownload /\ cur.idx # ConfigIdx /\ CurLayer.title.t # "str") =>
            cur.filename =
                IF CurLayer.mediaType = Str("application/wasm")
                THEN <<"module_", IdxTok(cur.idx), ".wasm">>
                ELSE <<"blob_", IdxTok(cur.idx)>>
    /\ \A m \in 1..Len(log) :
        (/\ IsRawWrite(log[m])
         /\ log[m].idx # ConfigIdx
         /\ manifest.layers.v[log[m].idx + 1].title.t # "str") =>
            log[m].name =
                IF manifest.layers.v[log[m].idx + 1].mediaType = Str("application/wasm")
                THEN <<"module_", IdxTok(log[m].idx), ".wasm">>
                ELSE <<"blob_", IdxTok(log[m].idx)>>

\* A wasm entry without title behind two skipped entries is saved as
\* module_2.wasm.
C6_Witness ==
    /\ pc = "done"
    /\ result = "ok"
    /\ manifest.layers.t = "array"
    /\ Len(manifest.layers.v) = 3
    /\ ~HasDigest(manifest.layers.v[1])
    /\ manifest.layers.v[3].title = AbsentTitle
    /\ <<"module_", "2", ".wasm">> \in DOMAIN files

\* An entry without title whose mediaType is another string is saved as blob_<i>.
C6_WitnessBlob ==
    /\ pc = "done"
    /\ result = "ok"
    /\ manifest.layers.t = "array"
    /\ Len(manifest.layers.v) = 2
    /\ manifest.layers.v[2].mediaType = Str("application/wasm2")
    /\ <<"blob_", "1">> \in DOMAIN files

----------------------------------------------------------------------------
(* Runs that exercise download_blob on one blob *)

JsonNameTokens == {"a", ".json"}

BlobTitles ==
    {AbsentTitle} \cup {Title(t) : t \in SeqsUpTo(JsonNameTokens, MaxNameLen)}

BlobManifests ==
    {[layers |-> Layers(<<Layer(Str(AnyDigest), AbsentStr, t)>>),
      config |-> AbsentConfig] : t \in BlobTitles}

\* The registries of these runs: the manifest and the blobs it serves.
BlobRegistries ==
    {<<m, (AnyDigest :> b) @@ FixedBlobs>> :
        m \in BlobManifests, b \in SeqsUpTo(ByteAlphabet, MaxBytes)}
    \cup {<<m, FixedBlobs>> : m \in BaseManifests}

InitBlob == \E r \in BlobRegistries : InitWith(Json(r[1]), r[2])

SpecBlob == InitBlob /\ [][Next]_vars

\* The name without its last ".json".
StrippedOnce(name) ==
    IF name # <<>> /\ name[Len(name)] = ".json"
    THEN SubSeq(name, 1, Len(name) - 1)
    ELSE name

\* The name without all the ".json" it ends in.
StrippedAll(name) ==
    LET k == CHOOSE k \in 0..Len(name) :
                /\ \A q \in (Len(name) - k + 1)..Len(name) : name[q] = ".json"
                /\ k = Len(name) \/ name[Len(name) - k] # ".json"
    IN SubSeq(name, 1, Len(name) - k)

LooksLikeJson(name, b) ==
    /\ (name # <<>> /\ name[Len(name)] = ".json") \/ (b # <<>> /\ b[1] = "{")
    /\ IsUtf8(b)
    /\ ParseJson(b).ok

\* download_blob has returned Ok for the blob whose raw write is log[m].
Returned(m) ==
    /\ ~(pc = "blob_pretty" /\ cur.idx = log[m].idx)
    /\ ~\E n \in (m + 1)..Len(log) :
            IsPrettyWrite(log[n]) /\ log[n].idx = log[m].idx /\ log[n].res # "ok"

PrettySibling(Strip(_)) ==
    \A m \in 1..Len(log) :
        (IsRawWrite(log[m]) /\ log[m].res = "ok") =>
            LET name == log[m].name
                b == srvBlobs[log[m].digest]
                sibling == Strip(name) \o <<"_pretty", ".json">>
                tries == {n \in (m + 1)..Len(log) :
                             IsPrettyWrite(log[n]) /\ log[n].idx = log[m].idx}
            IN /\ Cardinality(tries) <= 1
               /\ \A n \in tries : LooksLikeJson(name, b) /\ log[n].name = sibling
               /\ Returned(m) =>
                    IF LooksLikeJson(name, b)
                    THEN /\ \E n \in tries : log[n].res = "ok"
                         /\ sibling \in DOMAIN files
                         /\ files[sibling] = BytesContent(ToStringPretty(ParseJson(b)))
                         /\ ParseJson(files[sibling].b) = ParseJson(b)
                    ELSE /\ tries = {}
                         /\ DOMAIN files = {ManifestName, name}

====
